---- MODULE Spec2Model ----
(***************************************************************************)
(* Model of the download/resume state machine of src/run.py                *)
(* (RoundcubeDownloader and main).                                         *)
(*                                                                         *)
(* Text is modelled as a sequence of one-character strings, so that        *)
(* upper(), lower(), quoting and prefixing are computed, not assumed.      *)
(* The mail server and the operator are the environment: the server's      *)
(* answer to select is the table selResp, the enumeration snapshot is the  *)
(* id sequence 1..nmsgs, and every other answer (search status, fetch      *)
(* status, the outcome of process_email, the operator's replies, the       *)
(* arrival of Ctrl-C) is an input chosen in the action that consumes it.   *)
(* What survives a process is the progress file (ledger) and the archive   *)
(* files; everything else is reset by main.                                *)
(*                                                                         *)
(* Besides the job as a whole (Spec), the module specifies the job on a    *)
(* file system where writes of the progress file fail (SpecSave), the job  *)
(* with two servers to choose from (SpecServers), the folder resolver      *)
(* (SpecFolder), sanitize_filename (SpecSanitize), and process_email with  *)
(* save_attachment for one message (SpecPersist, SpecAttach).              *)
(*                                                                         *)
(* Not modelled: the timestamp and base_dir fields of the progress record, *)
(* a failing removal of the progress file, a progress file that parses to  *)
(* something other than a record, attachment names that sanitize to the    *)
(* empty string, connect/login failure (main returns before it touches     *)
(* anything).  In the job specifications process_email is summarised by    *)
(* its return value and the state of the .eml file.  The server answers    *)
(* the same folder name the same way throughout a job.                     *)
(***************************************************************************)
EXTENDS Integers, Sequences, FiniteSets, TLC

\* ------------------------------------------------------------------ bounds
MaxN == 12          \* largest enumeration snapshot (ids 1..nmsgs)
MaxRuns == 2        \* processes started over the lifetime of one job
MaxFailures == 1    \* failures injected over the lifetime of one job
MaxSmallN == 2      \* largest snapshot of the two-server specification
MaxParts == 2       \* parts of the message given to process_email
MaxCalls == 2       \* calls of process_email for the same message id

\* ------------------------------------------------------- program constants
Cadence == 10       \* "Save progress every 10 emails"

\* -------------------------------------------------------------------- text
LowerAlpha ==
  <<"a","b","c","d","e","f","g","h","i","j","k","l","m",
    "n","o","p","q","r","s","t","u","v","w","x","y","z">>

UpperAlpha ==
  <<"A","B","C","D","E","F","G","H","I","J","K","L","M",
    "N","O","P","Q","R","S","T","U","V","W","X","Y","Z">>

UpperChar(c) ==
  IF \E k \in 1..26 : LowerAlpha[k] = c
  THEN UpperAlpha[CHOOSE k \in 1..26 : LowerAlpha[k] = c]
  ELSE c

LowerChar(c) ==
  IF \E k \in 1..26 : UpperAlpha[k] = c
  THEN LowerAlpha[CHOOSE k \in 1..26 : UpperAlpha[k] = c]
  ELSE c

\* str.upper() / str.lower()
StrUpper(s) == [k \in 1..Len(s) |-> UpperChar(s[k])]

StrLower(s) == [k \in 1..Len(s) |-> LowerChar(s[k])]

\* sub in s
Contains(sub, s) ==
  \E k \in 0..(Len(s) - Len(sub)) : SubSeq(s, k + 1, k + Len(sub)) = sub

INBOX == <<"I","N","B","O","X">>

Sent == <<"S","e","n","t">>

Trash == <<"T","r","a","s","h">>

InboxDot == <<"I","N","B","O","X",".">>

GmailSlash == <<"[","G","m","a","i","l","]","/">>

gmail == <<"g","m","a","i","l">>

PlainServer == <<"m","x",".","o","r","g">>

GmailServer == <<"i","m","a","p",".","G","m","a","i","l",".","c","o","m">>

Quoted(folder) == <<"\"">> \o folder \o <<"\"">>

\* the list with the lower-case spelling tried before the upper-case one
FolderVariations_LowerFirst(folder, srv) ==
  << folder,
     Quoted(folder),
     StrLower(folder),
     StrUpper(folder),
     IF folder # INBOX THEN InboxDot \o folder ELSE folder,
     IF Contains(gmail, StrLower(srv)) THEN GmailSlash \o folder ELSE folder >>

\* folder_variations, the list built at lines 241-248
FolderVariations(folder, srv) ==
  << folder,
     Quoted(folder),
     StrUpper(folder),
     StrLower(folder),
     IF folder # INBOX THEN InboxDot \o folder ELSE folder,
     IF Contains(gmail, StrLower(srv)) THEN GmailSlash \o folder ELSE folder >>

\* -------------------------------------------------------------- file names
NameLimit == 200    \* "if len(filename) > 200"

SubjectLimit == 50  \* safe_subject[:50]

IdWidth == 6        \* {email_id:06d}

Rep(c, n) == [k \in 1..n |-> c]

MinOf(S) == CHOOSE x \in S : \A y \in S : x <= y

MaxOf(S) == CHOOSE x \in S : \A y \in S : x >= y

\* the character class of line 64
ForbiddenChars == {"<", ">", ":", "\"", "/", "\\", "|", "?", "*"}

\* re.sub(r'[<>:"/\\|?*]', '_', filename)
ReplaceForbidden(s) ==
  [k \in 1..Len(s) |-> IF s[k] \in ForbiddenChars THEN "_" ELSE s[k]]

\* s.strip(chars)
Strip(s, chars) ==
  LET keep == {k \in 1..Len(s) : s[k] \notin chars}
  IN  IF keep = {} THEN <<>> ELSE SubSeq(s, MinOf(keep), MaxOf(keep))

\* s[:k], k of either sign
Slice(s, k) ==
  IF k >= 0 THEN SubSeq(s, 1, IF k < Len(s) THEN k ELSE Len(s))
  ELSE SubSeq(s, 1, Len(s) + k)

\* os.path.splitext of a name without a path separator: the extension
\* starts at the last dot, unless only dots precede it
SplitExt(p) ==
  LET dots == {k \in 1..Len(p) : p[k] = "."}
      last == IF dots = {} THEN 0 ELSE MaxOf(dots)
  IN  IF \E k \in 1..(last - 1) : p[k] # "."
      THEN [name |-> SubSeq(p, 1, last - 1), ext |-> SubSeq(p, last, Len(p))]
      ELSE [name |-> p, ext |-> <<>>]

unnamed_file == <<"u","n","n","a","m","e","d","_","f","i","l","e">>

\* sanitize_filename, lines 58-72
SanitizeFilename(name) ==
  IF name = <<>> THEN unnamed_file
  ELSE LET stripped == Strip(ReplaceForbidden(name), {".", " "})
           parts == SplitExt(stripped)
       IN  IF Len(stripped) > NameLimit
           THEN Slice(parts.name, NameLimit - Len(parts.ext)) \o parts.ext
           ELSE stripped

DecDigits == <<"0","1","2","3","4","5","6","7","8","9">>

RECURSIVE Decimal(_)
\* str(n), n >= 0
Decimal(n) ==
  IF n < 10 THEN << DecDigits[n + 1] >>
  ELSE Decimal(n \div 10) \o << DecDigits[(n % 10) + 1] >>

\* f"{n:06d}"
ZeroPadded(n) ==
  IF Len(Decimal(n)) >= IdWidth THEN Decimal(n)
  ELSE Rep("0", IdWidth - Len(Decimal(n))) \o Decimal(n)

DotEml == <<".","e","m","l">>

\* eml_filename, line 209
ArchiveName(email_id, safe_subject) ==
  ZeroPadded(email_id) \o <<"_">> \o Slice(safe_subject, SubjectLimit)
    \o DotEml

\* ------------------------------------------------------------------ state
VARIABLES
  \* environment and file system
  selResp,              \* server: folder name -> "OK" | "NO" | "EXC" (raises)
  nmsgs,                \* enumeration snapshot: the ids 1..nmsgs
  opServers,            \* the servers the operator may type at the prompt
  saveFaults,           \* whether a write of the progress file can fail
  ledger,               \* download_progress.json
  emlFile,              \* id -> "none" | "partial" | "full"
  \* the running process
  pc,
  runs,
  server,               \* self.server
  requested,            \* folder argument of download_all_emails
  folder,               \* local variable folder
  resume_mode,          \* self.resume_mode
  processed_ids,        \* self.processed_ids
  email_ids,            \* local email_ids (the work list once filtered)
  total_emails,
  i,                    \* loop index of the last iteration taken
  processed_count,
  successful_downloads,
  \* history of the current run
  resumeAccepted,       \* the operator answered yes to the resume offer
  ledgerAtEntry,        \* ledger when download_all_emails was called
  fetchLog,             \* ids for which imap.fetch was called, in order
  failedIds,            \* ids whose iteration failed (fetch, persist, exception)
  okIds,                \* ids whose fetch and process_email both succeeded
  writtenIds,           \* ids whose archive file was opened for writing
  ckptLog,              \* save_progress calls: [at, final, rec, outcome]
  lastAttempt,          \* last id for which a fetch was issued (0: none)
  failCause,            \* why download_all_emails returned False
  interruptedAt,        \* where Ctrl-C arrived ("none": it did not)
  failures,             \* failures so far: of a message in the job, of a
                        \* file operation in process_email on its own
  \* sanitize_filename on its own
  filename,             \* the argument
  sanitized,            \* the value returned (Pending: not yet called)
  \* process_email and save_attachment on their own, for one message id
  msg,                  \* the parsed message: subject, sender, multipart, parts
  ppc,                  \* "idle" | "walk" | "returned" | "recorded"
  presult,              \* what process_email returned ("none": not yet)
  wrote_eml,            \* lines 213-214 completed in this call
  eml_filename,         \* the archive file name of this call
  partIx,               \* parts walked so far
  attachment_count,
  attDir,               \* names in attachments/email_<id>
  attLog,               \* save_attachment calls that reached line 185
  calls,                \* calls of process_email so far
  raisedAt              \* where this call raised ("none": it did not)

vars ==
  << selResp, nmsgs, opServers, saveFaults, ledger, emlFile, pc, runs, server, requested,
     folder, resume_mode, processed_ids, email_ids, total_emails, i,
     processed_count, successful_downloads, resumeAccepted, ledgerAtEntry,
     fetchLog, failedIds, okIds, writtenIds, ckptLog, lastAttempt, failCause,
     interruptedAt, failures, filename, sanitized, msg, ppc, presult,
     wrote_eml, eml_filename, partIx, attachment_count, attDir, attLog,
     calls, raisedAt >>

sanVars == << filename, sanitized >>

persistVars ==
  << msg, ppc, presult, wrote_eml, eml_filename, partIx, attachment_count,
     attDir, attLog, calls, raisedAt >>

unitVars == << sanVars, persistVars >>

envVars == << selResp, nmsgs, opServers, saveFaults >>

fileVars == << ledger, emlFile >>

Ids == 1..MaxN

Servers == {PlainServer}

BothServers == {PlainServer, GmailServer}

Folders == {INBOX, Trash}

NoLedger == [kind |-> "absent"]

\* a progress file that json.load cannot parse
CorruptLedger == [kind |-> "corrupt"]

\* the record written by save_progress (lines 82-91)
ProgressData(current_email_id, total, fld, pids) ==
  [ kind |-> "progress",
    server |-> server,
    folder |-> fld,
    last_processed_id |-> current_email_id,
    total_emails |-> total,
    processed_count |-> Cardinality(pids),
    processed_ids |-> pids ]

\* load_progress (lines 100-111): None when the file is absent, and when
\* reading or parsing it raises
LoadProgress == IF ledger.kind = "progress" THEN ledger ELSE NoLedger

\* imap.select(name)
Status(name) == IF name \in DOMAIN selResp THEN selResp[name] ELSE "NO"

\* the server of the main specification: INBOX selects, Sent exists only as
\* INBOX.Sent, Trash does not exist under any spelling
MainSelResp == (INBOX :> "OK") @@ ((InboxDot \o Sent) :> "OK")

EnumeratedIds == [k \in 1..nmsgs |-> k]

Last(s) == s[Len(s)]

Range(s) == {s[k] : k \in 1..Len(s)}

RECURSIVE SelectSeq2(_, _)
\* [eid for eid in email_ids if eid not in pids]
SelectSeq2(s, pids) ==
  IF s = <<>> THEN <<>>
  ELSE IF Head(s) \notin pids
       THEN <<Head(s)>> \o SelectSeq2(Tail(s), pids)
       ELSE SelectSeq2(Tail(s), pids)

\* the filter also drops the first id that is still to do
Remaining_DropsFirst(ids, pids) ==
  IF SelectSeq2(ids, pids) = <<>> THEN <<>> ELSE Tail(SelectSeq2(ids, pids))

\* remaining_ids, line 288
Remaining(ids, pids) == SelectSeq2(ids, pids)

\* ---------------------------------------------------------------- messages
\* A header value as email.header.decode_header returns it: a list of
\* fragments, each a str or bytes with the charset its encoded-word names;
\* decodes says whether the bytes are valid in that charset, text is what
\* they decode to.
Fragment(isBytes, encoding, decodes, text) ==
  [bytes |-> isBytes, encoding |-> encoding, decodes |-> decodes,
   text |-> text]

Absent == [present |-> FALSE, fragments |-> <<>>]

Header(fragments) == [present |-> TRUE, fragments |-> fragments]

PlainHeader(text) == Header(<< Fragment(FALSE, "none", TRUE, text) >>)

\* the charsets bytes.decode knows
KnownCodecs == {"utf-8", "iso-8859-1"}

RECURSIVE DecodeFragments(_)
\* the loop of lines 48-55; ok is FALSE when fragment.decode(encoding)
\* raises (LookupError, UnicodeDecodeError)
DecodeFragments(fragments) ==
  IF fragments = <<>> THEN [ok |-> TRUE, val |-> <<>>]
  ELSE LET f == Head(fragments)
           rest == DecodeFragments(Tail(fragments))
       IN  IF f.bytes /\ f.encoding # "none"
                /\ (f.encoding \notin KnownCodecs \/ ~f.decodes)
           THEN [ok |-> FALSE, val |-> <<>>]
           ELSE IF ~rest.ok THEN rest
                ELSE [ok |-> TRUE, val |-> f.text \o rest.val]

\* decode_mime_words, lines 42-56
DecodeMimeWords(s) ==
  IF ~s.present THEN [ok |-> TRUE, val |-> <<>>]
  ELSE DecodeFragments(s.fragments)

\* email_message.get(name, default)
GetHeader(h, default) == IF h.present THEN h ELSE PlainHeader(default)

NoSubject == <<"N","o"," ","S","u","b","j","e","c","t">>

UnknownSender ==
  <<"U","n","k","n","o","w","n"," ","S","e","n","d","e","r">>

Re == <<"R","e">>

InvoicePdf == <<"i","n","v","o","i","c","e",".","p","d","f">>

Invoice1Pdf == <<"i","n","v","o","i","c","e","_","1",".","p","d","f">>

TextPlain == <<"t","e","x","t","/","p","l","a","i","n">>

ImagePng == <<"i","m","a","g","e","/","p","n","g">>

AppPdf ==
  <<"a","p","p","l","i","c","a","t","i","o","n","/","p","d","f">>

AppZip ==
  <<"a","p","p","l","i","c","a","t","i","o","n","/","z","i","p">>

\* the ext of lines 162-169
SyntheticExt(content_type) ==
  IF Contains(<<"i","m","a","g","e">>, content_type)
  THEN <<".","j","p","g">>
  ELSE IF Contains(<<"t","e","x","t">>, content_type)
       THEN <<".","t","x","t">>
       ELSE IF Contains(<<"p","d","f">>, content_type)
            THEN <<".","p","d","f">>
            ELSE <<".","b","i","n">>

\* line 169
SyntheticName(email_id, att_count, content_type) ==
  <<"a","t","t","a","c","h","m","e","n","t","_">> \o Decimal(email_id)
    \o <<"_">> \o Decimal(att_count) \o SyntheticExt(content_type)

\* f"{name}_{counter}{ext}" of line 182 (counter 0: the name as it is)
Candidate(name, counter) ==
  IF counter = 0 THEN name
  ELSE LET split == SplitExt(name)
       IN  split.name \o <<"_">> \o Decimal(counter) \o split.ext

RECURSIVE NextFree(_, _, _)
\* the while loop of lines 180-183
NextFree(dir, name, counter) ==
  LET filepath == Candidate(name, counter)
  IN  IF filepath \in dir THEN NextFree(dir, name, counter + 1)
      ELSE filepath

\* the name is used whether or not it exists
ResolveCollision_NoCheck(dir, name) == name

\* lines 177-183: the first of name, name_1, name_2, ... that does not exist
ResolveCollision(dir, name) == NextFree(dir, name, 0)

MsgId == 1

NoMessage ==
  [subject |-> Absent, sender |-> Absent, multipart |-> FALSE,
   parts |-> <<>>]

\* ------------------------------------------------------------------- Init
PersistIdle ==
  /\ ppc = "idle"
  /\ presult = "none"
  /\ wrote_eml = FALSE
  /\ eml_filename = <<>>
  /\ partIx = 0
  /\ attachment_count = 0
  /\ attDir = {}
  /\ attLog = <<>>
  /\ calls = 0
  /\ raisedAt = "none"

Pending == <<"pending">>

\* the units specified on their own are not running
UnitIdle ==
  /\ filename = <<>>
  /\ sanitized = Pending
  /\ msg = NoMessage
  /\ PersistIdle

RunInit ==
  /\ server = PlainServer
  /\ requested = INBOX
  /\ folder = INBOX
  /\ resume_mode = FALSE
  /\ processed_ids = {}
  /\ email_ids = <<>>
  /\ total_emails = 0
  /\ i = 0
  /\ processed_count = 0
  /\ successful_downloads = 0
  /\ resumeAccepted = FALSE
  /\ ledgerAtEntry = NoLedger
  /\ fetchLog = <<>>
  /\ failedIds = {}
  /\ okIds = {}
  /\ writtenIds = {}
  /\ ckptLog = <<>>
  /\ lastAttempt = 0
  /\ failCause = "none"
  /\ interruptedAt = "none"

Init ==
  /\ selResp = MainSelResp
  /\ nmsgs \in 0..MaxN
  /\ opServers = Servers
  /\ saveFaults = FALSE
  /\ ledger = NoLedger
  /\ emlFile = [id \in Ids |-> "none"]
  /\ pc = "idle"
  /\ runs = 0
  /\ failures = 0
  /\ RunInit
  /\ UnitIdle

\* ------------------------------------------------------------------- main
\* a new process: RoundcubeDownloader.__init__ and the locals of main
NewProcess(srv, fld, resume, pids, accepted) ==
  /\ pc \in {"idle", "done", "failed", "interrupted"}
  /\ runs < MaxRuns
  /\ runs' = runs + 1
  /\ pc' = "select"
  /\ server' = srv
  /\ requested' = fld
  /\ folder' = fld
  /\ resume_mode' = resume
  /\ processed_ids' = pids
  /\ resumeAccepted' = accepted
  /\ email_ids' = <<>>
  /\ total_emails' = 0
  /\ i' = 0
  /\ processed_count' = 0
  /\ successful_downloads' = 0
  /\ fetchLog' = <<>>
  /\ failedIds' = {}
  /\ okIds' = {}
  /\ writtenIds' = {}
  /\ ckptLog' = <<>>
  /\ lastAttempt' = 0
  /\ failCause' = "none"
  /\ interruptedAt' = "none"
  /\ UNCHANGED << envVars, unitVars, emlFile, failures >>

\* check_resume_option finds no progress file: (False, set()), lines 115-117;
\* the operator names the folder (lines 495-522)
MainFresh ==
  \E srv \in opServers, fld \in Folders :
    /\ LoadProgress = NoLedger
    /\ NewProcess(srv, fld, FALSE, {}, FALSE)
    /\ ledger' = ledger
    /\ ledgerAtEntry' = ledger

\* the recorded ids are dropped on "yes"
ResumeIds_Empty(progress) == {}

\* the ids check_resume_option returns on "yes" (line 127)
ResumeIds(progress) == progress.processed_ids

\* the operator accepts the resume offer and the second load_progress
\* (line 486) succeeds: the folder is the recorded one
MainResume ==
  \E srv \in opServers :
    /\ LoadProgress # NoLedger
    /\ NewProcess(srv, LoadProgress.folder, TRUE, ResumeIds(LoadProgress), TRUE)
    /\ ledger' = ledger
    /\ ledgerAtEntry' = ledger

\* the operator accepts, the second load_progress returns None (lines
\* 490-493): resume_mode is reset, processed_ids is not
MainResumeLoadFail ==
  \E srv \in opServers, fld \in Folders :
    /\ LoadProgress # NoLedger
    /\ NewProcess(srv, fld, FALSE, ResumeIds(LoadProgress), TRUE)
    /\ ledger' = ledger
    /\ ledgerAtEntry' = ledger

\* the operator declines: the progress file is removed (lines 128-134)
MainDecline ==
  \E srv \in opServers, fld \in Folders :
    /\ LoadProgress # NoLedger
    /\ NewProcess(srv, fld, FALSE, {}, FALSE)
    /\ ledger' = NoLedger
    /\ ledgerAtEntry' = NoLedger

\* ---------------------------------------------------- download_all_emails
runHistory ==
  << resumeAccepted, ledgerAtEntry, fetchLog, failedIds, okIds, writtenIds,
     ckptLog, lastAttempt, interruptedAt >>

loopVars ==
  << email_ids, total_emails, i, processed_count, successful_downloads >>

\* the variation the for loop of lines 250-258 stops at (0: none); a select
\* that raises is skipped like one that answers NO
FirstSelectable(variations) ==
  IF \E k \in 1..Len(variations) : Status(variations[k]) = "OK"
  THEN CHOOSE k \in 1..Len(variations) :
         /\ Status(variations[k]) = "OK"
         /\ \A j \in 1..(k - 1) : Status(variations[j]) # "OK"
  ELSE 0

\* lines 237-263
SelectFolder ==
  /\ pc = "select"
  /\ LET first == Status(folder)
         variations == FolderVariations(folder, server)
         k == FirstSelectable(variations)
     IN  CASE first = "OK" ->
                /\ pc' = "search"
                /\ UNCHANGED << folder, failCause >>
           [] first = "EXC" ->
                /\ pc' = "failed"
                /\ failCause' = "exception"
                /\ UNCHANGED folder
           [] OTHER ->
                IF k # 0
                THEN /\ folder' = variations[k]
                     /\ pc' = "search"
                     /\ UNCHANGED failCause
                ELSE /\ pc' = "failed"
                     /\ failCause' = "folder"
                     /\ UNCHANGED folder
  /\ UNCHANGED << envVars, unitVars, fileVars, runs, server, requested, resume_mode,
                  processed_ids, loopVars, runHistory, failures >>

\* a failed search that also removes the progress file
SearchFail_ClearsLedger ==
  /\ pc = "search"
  /\ pc' = "failed"
  /\ failCause' = "search"
  /\ ledger' = NoLedger
  /\ UNCHANGED << envVars, unitVars, emlFile, runs, server, requested, folder,
                  resume_mode, processed_ids, loopVars, runHistory, failures >>

\* imap.search does not answer OK, or raises (lines 266-269, 345-347)
SearchFail ==
  /\ pc = "search"
  /\ pc' = "failed"
  /\ failCause' = "search"
  /\ UNCHANGED << envVars, unitVars, fileVars, runs, server, requested, folder,
                  resume_mode, processed_ids, loopVars, runHistory, failures >>

\* imap.search answers OK: lines 271-295
SearchOK ==
  /\ pc = "search"
  /\ total_emails' = nmsgs
  /\ IF nmsgs = 0
     THEN /\ pc' = "done"
          /\ email_ids' = <<>>
          /\ processed_count' = 0
     ELSE /\ pc' = "loop"
          /\ email_ids' = IF resume_mode /\ processed_ids # {}
                          THEN Remaining(EnumeratedIds, processed_ids)
                          ELSE EnumeratedIds
          /\ processed_count' = IF resume_mode THEN Cardinality(processed_ids)
                                ELSE 0
  /\ i' = 0
  /\ successful_downloads' = 0
  /\ UNCHANGED << envVars, unitVars, fileVars, runs, server, requested, folder,
                  resume_mode, processed_ids, runHistory, failCause, failures >>

\* how a call of save_progress can end: the record is written ("ok"); open
\* raises and the file is as it was ("refused"); open has truncated the file
\* and json.dump raises part-way ("truncated"), both caught at lines 97-98;
\* Ctrl-C arrives during json.dump ("interrupted"), which except Exception
\* does not catch
SaveOutcomes ==
  IF saveFaults THEN {"ok", "refused", "truncated", "interrupted"} ELSE {"ok"}

\* the progress file after save_progress (lines 93-98)
SaveProgress(rec, outcome) ==
  CASE outcome = "ok" -> rec
    [] outcome = "refused" -> ledger
    [] OTHER -> CorruptLedger

\* a write that fails ends download_all_emails
AfterSave_Raises(outcome, after) ==
  IF outcome = "ok" THEN after
  ELSE IF outcome = "interrupted" THEN "interrupted" ELSE "failed"

\* where control is after save_progress
AfterSave(outcome, after) ==
  IF outcome = "interrupted" THEN "interrupted" ELSE after

\* line 316
SaveDue(pos, len) == pos % Cadence = 0 \/ pos = len

\* lines 315-317 of the iteration at position pos, with the ids as they are
\* after the iteration
Checkpoint(pos, eid, pids) ==
  IF SaveDue(pos, Len(email_ids))
  THEN \E outcome \in SaveOutcomes :
         LET rec == ProgressData(eid, total_emails, folder, pids) IN
           /\ ledger' = SaveProgress(rec, outcome)
           /\ ckptLog' = Append(ckptLog,
                           [at |-> pos, final |-> FALSE, rec |-> rec,
                            outcome |-> outcome])
           /\ pc' = AfterSave(outcome, pc)
           /\ interruptedAt' = IF outcome = "interrupted" THEN "save"
                               ELSE interruptedAt
  ELSE UNCHANGED << ledger, ckptLog, pc, interruptedAt >>

InLoop == pc = "loop" /\ i < Len(email_ids)

iterFrame ==
  << envVars, unitVars, runs, server, requested, folder, resume_mode, email_ids,
     total_emails, resumeAccepted, ledgerAtEntry, failCause >>

\* a skip that does not move to the next id
SkipProcessed_Stays ==
  /\ InLoop
  /\ email_ids[i + 1] \in processed_ids
  /\ UNCHANGED vars

\* lines 300-301: the id is already in processed_ids
SkipProcessed ==
  /\ InLoop
  /\ email_ids[i + 1] \in processed_ids
  /\ i' = i + 1
  /\ UNCHANGED << iterFrame, pc, interruptedAt, fileVars, processed_ids,
                  processed_count, successful_downloads, fetchLog, failedIds,
                  okIds, writtenIds, ckptLog, lastAttempt, failures >>

\* a failed fetch that is tried again instead of moving to the next id
FetchFail_Retries ==
  /\ InLoop
  /\ email_ids[i + 1] \notin processed_ids
  /\ failures < MaxFailures
  /\ failures' = failures + 1
  /\ i' = i
  /\ fetchLog' = Append(fetchLog, email_ids[i + 1])
  /\ lastAttempt' = email_ids[i + 1]
  /\ failedIds' = failedIds \cup {email_ids[i + 1]}
  /\ UNCHANGED << iterFrame, pc, interruptedAt, fileVars, processed_ids,
                  processed_count, successful_downloads, okIds, writtenIds,
                  ckptLog >>

\* a failed fetch that returns False from download_all_emails instead of
\* continuing with the next id
FetchFail_Aborts ==
  /\ InLoop
  /\ email_ids[i + 1] \notin processed_ids
  /\ failures < MaxFailures
  /\ failures' = failures + 1
  /\ i' = i + 1
  /\ fetchLog' = Append(fetchLog, email_ids[i + 1])
  /\ lastAttempt' = email_ids[i + 1]
  /\ failedIds' = failedIds \cup {email_ids[i + 1]}
  /\ pc' = "failed"
  /\ failCause' = "fetch"
  /\ UNCHANGED << envVars, unitVars, runs, server, requested, folder, resume_mode,
                  email_ids, total_emails, resumeAccepted, ledgerAtEntry,
                  interruptedAt, fileVars, processed_ids, processed_count,
                  successful_downloads, okIds, writtenIds, ckptLog >>

\* lines 304-307 and 320-322: fetch does not answer OK, or fetch (or the
\* indexing of its answer) raises; both continue with the next id
FetchFail ==
  /\ InLoop
  /\ email_ids[i + 1] \notin processed_ids
  /\ failures < MaxFailures
  /\ failures' = failures + 1
  /\ i' = i + 1
  /\ fetchLog' = Append(fetchLog, email_ids[i + 1])
  /\ lastAttempt' = email_ids[i + 1]
  /\ failedIds' = failedIds \cup {email_ids[i + 1]}
  /\ UNCHANGED << iterFrame, pc, interruptedAt, fileVars, processed_ids,
                  processed_count, successful_downloads, okIds, writtenIds,
                  ckptLog >>

\* lines 304-318, process_email returns True
ProcessOK ==
  /\ InLoop
  /\ LET eid == email_ids[i + 1] IN
       /\ eid \notin processed_ids
       /\ i' = i + 1
       /\ fetchLog' = Append(fetchLog, eid)
       /\ lastAttempt' = eid
       /\ emlFile' = [emlFile EXCEPT ![eid] = "full"]
       /\ writtenIds' = writtenIds \cup {eid}
       /\ okIds' = okIds \cup {eid}
       /\ successful_downloads' = successful_downloads + 1
       /\ processed_count' = processed_count + 1
       /\ processed_ids' = processed_ids \cup {eid}
       /\ Checkpoint(i + 1, eid, processed_ids')
  /\ UNCHANGED << iterFrame, failedIds, failures >>

\* a process_email that returns True although the archive write failed
ProcessFail_Counts ==
  /\ InLoop
  /\ failures < MaxFailures
  /\ \E stage \in {"before", "partial", "after"} :
       LET eid == email_ids[i + 1] IN
         /\ eid \notin processed_ids
         /\ i' = i + 1
         /\ fetchLog' = Append(fetchLog, eid)
         /\ lastAttempt' = eid
         /\ failedIds' = failedIds \cup {eid}
         /\ IF stage = "before"
            THEN UNCHANGED << emlFile, writtenIds >>
            ELSE /\ emlFile' = [emlFile EXCEPT
                                  ![eid] = IF stage = "partial" THEN "partial"
                                           ELSE "full"]
                 /\ writtenIds' = writtenIds \cup {eid}
         /\ processed_ids' = processed_ids \cup {eid}
         /\ processed_count' = processed_count + 1
         /\ Checkpoint(i + 1, eid, processed_ids')
  /\ failures' = failures + 1
  /\ UNCHANGED << iterFrame, successful_downloads, okIds >>

\* lines 304-318, process_email returns False: it raised before the archive
\* file was opened ("before"), while writing it ("partial"), or in the
\* attachment walk after the file was closed ("after")
ProcessFail ==
  /\ InLoop
  /\ failures < MaxFailures
  /\ \E stage \in {"before", "partial", "after"} :
       LET eid == email_ids[i + 1] IN
         /\ eid \notin processed_ids
         /\ i' = i + 1
         /\ fetchLog' = Append(fetchLog, eid)
         /\ lastAttempt' = eid
         /\ failedIds' = failedIds \cup {eid}
         /\ IF stage = "before"
            THEN UNCHANGED << emlFile, writtenIds >>
            ELSE /\ emlFile' = [emlFile EXCEPT
                                  ![eid] = IF stage = "partial" THEN "partial"
                                           ELSE "full"]
                 /\ writtenIds' = writtenIds \cup {eid}
         /\ Checkpoint(i + 1, eid, processed_ids)
  /\ failures' = failures + 1
  /\ UNCHANGED << iterFrame, processed_ids, processed_count,
                  successful_downloads, okIds >>

\* lines 324-331: the loop is over
Finalize ==
  /\ pc = "loop"
  /\ i = Len(email_ids)
  /\ IF email_ids # <<>>
     THEN \E outcome \in SaveOutcomes :
            LET rec == ProgressData(Last(email_ids), total_emails, folder,
                                    processed_ids) IN
              /\ ledger' = SaveProgress(rec, outcome)
              /\ ckptLog' = Append(ckptLog,
                              [at |-> i, final |-> TRUE, rec |-> rec,
                               outcome |-> outcome])
              /\ pc' = AfterSave(outcome, "cleanup")
              /\ interruptedAt' = IF outcome = "interrupted" THEN "save"
                                  ELSE interruptedAt
     ELSE /\ pc' = "cleanup"
          /\ UNCHANGED << ledger, ckptLog, interruptedAt >>
  /\ UNCHANGED << envVars, unitVars, emlFile, runs, server, requested,
                  folder, resume_mode, processed_ids, loopVars, resumeAccepted,
                  ledgerAtEntry, fetchLog, failedIds, okIds, writtenIds,
                  lastAttempt, failCause, failures >>

\* the completion test with > for >=
JobComplete_Strict(count, total) == count > total

\* line 334
JobComplete(count, total) == count >= total

\* lines 333-343
Cleanup ==
  /\ pc = "cleanup"
  /\ pc' = "done"
  /\ ledger' = IF JobComplete(processed_count, total_emails) THEN NoLedger
               ELSE ledger
  /\ UNCHANGED << envVars, unitVars, emlFile, runs, server, requested,
                  folder, resume_mode, processed_ids, loopVars, runHistory,
                  failCause, failures >>

\* KeyboardInterrupt between two statements of download_all_emails: no
\* handler inside it catches it (except Exception does not), main prints
\* "Progress has been saved" and disconnects (lines 527-533)
Interrupt ==
  /\ pc \in {"select", "search", "loop", "cleanup"}
  /\ pc' = "interrupted"
  /\ interruptedAt' = pc
  /\ UNCHANGED << envVars, unitVars, fileVars, runs, server, requested, folder,
                  resume_mode, processed_ids, loopVars, resumeAccepted,
                  ledgerAtEntry, fetchLog, failedIds, okIds, writtenIds,
                  ckptLog, lastAttempt, failCause, failures >>

\* KeyboardInterrupt while process_email is writing the archive file
\* (lines 213-214): process_email's except Exception does not catch it
InterruptDuringWrite ==
  /\ InLoop
  /\ LET eid == email_ids[i + 1] IN
       /\ eid \notin processed_ids
       /\ fetchLog' = Append(fetchLog, eid)
       /\ lastAttempt' = eid
       /\ emlFile' = [emlFile EXCEPT ![eid] = "partial"]
       /\ writtenIds' = writtenIds \cup {eid}
  /\ interruptedAt' = "write"
  /\ pc' = "interrupted"
  /\ UNCHANGED << envVars, unitVars, ledger, runs, server, requested, folder,
                  resume_mode, processed_ids, loopVars, resumeAccepted,
                  ledgerAtEntry, failedIds, okIds, ckptLog, failCause,
                  failures >>

Next ==
  \/ MainFresh
  \/ MainResume
  \/ MainResumeLoadFail
  \/ MainDecline
  \/ SelectFolder
  \/ SearchFail
  \/ SearchOK
  \/ SkipProcessed
  \/ FetchFail
  \/ ProcessOK
  \/ ProcessFail
  \/ Finalize
  \/ Cleanup
  \/ Interrupt
  \/ InterruptDuringWrite

Spec == Init /\ [][Next]_vars

\* -------------------------------------------------------- without Ctrl-C
\* The job when no interrupt arrives and every call of a collaborator
\* returns: a process that is inside download_all_emails takes its next
\* step.  When a process is started is up to the operator.
NextRun ==
  \/ MainFresh
  \/ MainResume
  \/ MainResumeLoadFail
  \/ MainDecline
  \/ SelectFolder
  \/ SearchFail
  \/ SearchOK
  \/ SkipProcessed
  \/ FetchFail
  \/ ProcessOK
  \/ ProcessFail
  \/ Finalize
  \/ Cleanup

\* one turn of the loop of lines 297-322
Iteration == SkipProcessed \/ FetchFail \/ ProcessOK \/ ProcessFail

Fairness ==
  /\ WF_vars(SelectFolder)
  /\ WF_vars(SearchFail \/ SearchOK)
  /\ WF_vars(Iteration)
  /\ WF_vars(Finalize)
  /\ WF_vars(Cleanup)

SpecRun == Init /\ [][NextRun]_vars /\ Fairness

\* ------------------------------------------------- failing progress writes
\* The same job on a file system where a write of the progress file can be
\* refused, cut short or interrupted.
InitSave ==
  /\ selResp = MainSelResp
  /\ nmsgs \in 0..MaxN
  /\ opServers = Servers
  /\ saveFaults = TRUE
  /\ ledger = NoLedger
  /\ emlFile = [id \in Ids |-> "none"]
  /\ pc = "idle"
  /\ runs = 0
  /\ failures = 0
  /\ RunInit
  /\ UnitIdle

\* every message is fetched and archived: the faults of this specification
\* are those of the progress file
NextSave ==
  \/ MainFresh
  \/ MainResume
  \/ MainResumeLoadFail
  \/ MainDecline
  \/ SelectFolder
  \/ SearchFail
  \/ SearchOK
  \/ SkipProcessed
  \/ ProcessOK
  \/ Finalize
  \/ Cleanup
  \/ Interrupt
  \/ InterruptDuringWrite

SpecSave == InitSave /\ [][NextSave]_vars

\* ------------------------------------------------------------ two servers
\* The same job when the operator may type either of two servers at the
\* prompt; both hold a folder INBOX with the same number of messages.
InitServers ==
  /\ selResp = MainSelResp
  /\ nmsgs \in 0..MaxSmallN
  /\ opServers = BothServers
  /\ saveFaults = FALSE
  /\ ledger = NoLedger
  /\ emlFile = [id \in Ids |-> "none"]
  /\ pc = "idle"
  /\ runs = 0
  /\ failures = 0
  /\ RunInit
  /\ UnitIdle

SpecServers == InitServers /\ [][Next]_vars

\* ---------------------------------------------------------- folder resolver
\* A specification of the resolver alone: one process on an empty folder,
\* for every requested name, every server and every table of select answers
\* over the names the resolver can try.
inbox == <<"i","n","b","o","x">>

FolderRequests == {INBOX, inbox, Sent, Trash}

FolderServers == {PlainServer, GmailServer}

InitFolder ==
  /\ nmsgs = 0
  /\ opServers = FolderServers
  /\ saveFaults = FALSE
  /\ ledger = NoLedger
  /\ emlFile = [id \in Ids |-> "none"]
  /\ pc = "select"
  /\ runs = 1
  /\ failures = 0
  /\ UnitIdle
  /\ server \in FolderServers
  /\ requested \in FolderRequests
  /\ folder = requested
  /\ selResp \in [Range(FolderVariations(requested, server)) -> {"OK", "NO", "EXC"}]
  /\ resume_mode = FALSE
  /\ processed_ids = {}
  /\ email_ids = <<>>
  /\ total_emails = 0
  /\ i = 0
  /\ processed_count = 0
  /\ successful_downloads = 0
  /\ resumeAccepted = FALSE
  /\ ledgerAtEntry = NoLedger
  /\ fetchLog = <<>>
  /\ failedIds = {}
  /\ okIds = {}
  /\ writtenIds = {}
  /\ ckptLog = <<>>
  /\ lastAttempt = 0
  /\ failCause = "none"
  /\ interruptedAt = "none"

NextFolder ==
  \/ SelectFolder
  \/ SearchFail
  \/ SearchOK

SpecFolder == InitFolder /\ [][NextFolder]_vars

\* ------------------------------------------------------- sanitize_filename
\* sanitize_filename alone, on names made of a stem and an extension of
\* chosen lengths, with and without characters the function treats
\* specially before, between and after them.
MainIdle ==
  /\ selResp = MainSelResp
  /\ nmsgs = 0
  /\ opServers = Servers
  /\ saveFaults = FALSE
  /\ ledger = NoLedger
  /\ emlFile = [id \in Ids |-> "none"]
  /\ pc = "idle"
  /\ runs = 0
  /\ failures = 0
  /\ RunInit

mainVars ==
  << envVars, fileVars, pc, runs, server, requested, folder, resume_mode,
     processed_ids, loopVars, runHistory, failCause, failures >>

StemLens == {0, 1, NameLimit - 4, NameLimit, NameLimit + 1}

ExtLens == {0, 3, NameLimit - 1, NameLimit, NameLimit + 1}

Leads == {<<>>, <<".">>, <<" ">>, <<"<">>}

Joints == {<<>>, <<".">>, <<"/">>, <<".", ".">>}

Tails == {<<>>, <<".">>, <<"?">>}

SanitizeInputs ==
  { lead \o Rep("a", n) \o joint \o Rep("x", m) \o tail :
      lead \in Leads, n \in StemLens, joint \in Joints, m \in ExtLens,
      tail \in Tails }

InitSanitize ==
  /\ MainIdle
  /\ filename \in SanitizeInputs
  /\ sanitized = Pending
  /\ msg = NoMessage
  /\ PersistIdle

CallSanitize ==
  /\ sanitized = Pending
  /\ sanitized' = SanitizeFilename(filename)
  /\ UNCHANGED << mainVars, persistVars, filename >>

NextSanitize == CallSanitize

SpecSanitize == InitSanitize /\ [][NextSanitize]_vars

\* ------------------------------------------- process_email, save_attachment
\* process_email and save_attachment alone, called for one message id by the
\* loop of download_all_emails, in one process and again in later ones that
\* do not skip the id (the resume offer was declined, or the id never
\* reached the progress file).  The message, the outcome of every file
\* operation and the charsets of its headers are inputs.
HeaderKinds ==
  { Absent,
    PlainHeader(Re),
    Header(<< Fragment(TRUE, "utf-8", TRUE, Re) >>),
    Header(<< Fragment(TRUE, "none", TRUE, Re),
              Fragment(TRUE, "utf-8", FALSE, <<>>) >>),
    Header(<< Fragment(TRUE, "x-unknown", TRUE, Re) >>) }

SenderKinds ==
  { PlainHeader(Re), Header(<< Fragment(TRUE, "x-unknown", TRUE, Re) >>) }

Part(attachment, name, content_type) ==
  [attachment |-> attachment, filename |-> name,
   content_type |-> content_type]

PartKinds ==
  { Part(FALSE, Absent, TextPlain),
    Part(TRUE, PlainHeader(InvoicePdf), AppPdf),
    Part(TRUE, PlainHeader(Invoice1Pdf), AppPdf),
    Part(TRUE, Header(<< Fragment(TRUE, "x-unknown", TRUE, InvoicePdf) >>),
         AppZip),
    Part(TRUE, Absent, ImagePng) }

PartLists ==
  UNION { [1..n -> PartKinds] : n \in 0..MaxParts }

InitPersist ==
  /\ MainIdle
  /\ filename = <<>>
  /\ sanitized = Pending
  /\ msg \in [subject : HeaderKinds, sender : SenderKinds,
               multipart : BOOLEAN, parts : PartLists]
  /\ PersistIdle

persistFrame ==
  << envVars, sanVars, ledger, pc, runs, server, requested, folder,
     resume_mode, loopVars, runHistory, failCause, msg >>

\* how opening and writing a file can end while a failure is still allowed
FileOutcomes ==
  IF failures < MaxFailures THEN {"open", "write", "ok"} ELSE {"ok"}

\* how os.makedirs can end
DirOutcomes == IF failures < MaxFailures THEN {FALSE, TRUE} ELSE {TRUE}

\* process_email returns False from its except clause (lines 229-231)
Raise(where) ==
  /\ presult' = FALSE
  /\ raisedAt' = where
  /\ ppc' = "returned"

\* lines 196-217: the call, up to the start of the walk
ProcessEmail ==
  /\ ppc = "idle"
  /\ calls < MaxCalls
  /\ MsgId \notin processed_ids
  /\ calls' = calls + 1
  /\ partIx' = 0
  /\ attachment_count' = 0
  /\ LET subject == DecodeMimeWords(GetHeader(msg.subject, NoSubject))
         sender == DecodeMimeWords(GetHeader(msg.sender, UnknownSender))
     IN  IF ~subject.ok \/ ~sender.ok
         THEN /\ Raise("header")
              /\ UNCHANGED << emlFile, wrote_eml, eml_filename, failures >>
         ELSE /\ eml_filename' =
                   ArchiveName(MsgId, SanitizeFilename(subject.val))
              /\ \E written \in FileOutcomes :
                   CASE written = "open" ->
                          /\ Raise("archive")
                          /\ failures' = failures + 1
                          /\ UNCHANGED << emlFile, wrote_eml >>
                     [] written = "write" ->
                          /\ Raise("archive")
                          /\ failures' = failures + 1
                          /\ emlFile' = [emlFile EXCEPT ![MsgId] = "partial"]
                          /\ UNCHANGED wrote_eml
                     [] OTHER ->
                          /\ emlFile' = [emlFile EXCEPT ![MsgId] = "full"]
                          /\ wrote_eml' = TRUE
                          /\ UNCHANGED failures
                          /\ IF msg.multipart
                             THEN /\ ppc' = "walk"
                                  /\ UNCHANGED << presult, raisedAt >>
                             ELSE /\ ppc' = "returned"
                                  /\ presult' = TRUE
                                  /\ UNCHANGED raisedAt
  /\ UNCHANGED << persistFrame, processed_ids, attDir, attLog >>

\* one turn of the loop of lines 219-225 on a part that is not an attachment
WalkOther ==
  /\ ppc = "walk"
  /\ partIx < Len(msg.parts)
  /\ ~msg.parts[partIx + 1].attachment
  /\ partIx' = partIx + 1
  /\ UNCHANGED << persistFrame, failures, processed_ids, emlFile, ppc, presult,
                  wrote_eml, eml_filename, attachment_count, attDir, attLog,
                  calls, raisedAt >>

\* one turn of the loop of lines 219-225 on an attachment: save_attachment,
\* lines 154-192
SaveAttachment ==
  /\ ppc = "walk"
  /\ partIx < Len(msg.parts)
  /\ msg.parts[partIx + 1].attachment
  /\ partIx' = partIx + 1
  /\ attachment_count' = attachment_count + 1
  /\ LET part == msg.parts[partIx + 1]
         named == part.filename.present /\ part.filename.fragments # <<>>
         decoded == DecodeMimeWords(part.filename)
         declared == IF named THEN SanitizeFilename(decoded.val)
                     ELSE SyntheticName(MsgId, attachment_count',
                                        part.content_type)
         filepath == ResolveCollision(attDir, declared)
     IN  IF named /\ ~decoded.ok
         THEN /\ Raise("filename")
              /\ UNCHANGED << attDir, attLog, failures >>
         ELSE \E made \in DirOutcomes, written \in FileOutcomes :
                IF ~made
                THEN /\ Raise("makedirs")
                     /\ written = "ok"
                     /\ failures' = failures + 1
                     /\ UNCHANGED << attDir, attLog >>
                ELSE /\ failures' = IF written = "ok" THEN failures
                                    ELSE failures + 1
                     /\ attDir' = IF written = "open" THEN attDir
                                  ELSE attDir \cup {filepath}
                     /\ attLog' = Append(attLog,
                                     [declared |-> declared,
                                      filepath |-> filepath,
                                      before |-> attDir,
                                      saved |-> written = "ok"])
                     /\ UNCHANGED << ppc, presult, raisedAt >>
  /\ UNCHANGED << persistFrame, processed_ids, emlFile, wrote_eml,
                  eml_filename, calls >>

\* line 227: the walk is over
ReturnTrue ==
  /\ ppc = "walk"
  /\ partIx = Len(msg.parts)
  /\ presult' = TRUE
  /\ ppc' = "returned"
  /\ UNCHANGED << persistFrame, failures, processed_ids, emlFile, wrote_eml,
                  eml_filename, partIx, attachment_count, attDir, attLog,
                  calls, raisedAt >>

\* lines 309-313 of the caller
RecordResult ==
  /\ ppc = "returned"
  /\ ppc' = "recorded"
  /\ processed_ids' = IF presult = TRUE THEN processed_ids \cup {MsgId}
                      ELSE processed_ids
  /\ UNCHANGED << persistFrame, failures, emlFile, presult, wrote_eml, eml_filename,
                  partIx, attachment_count, attDir, attLog, calls, raisedAt >>

\* a later process in which the id is not skipped: __init__ (line 25) and
\* main (line 482) start it with no completed ids
LaterProcess ==
  /\ ppc = "recorded"
  /\ calls < MaxCalls
  /\ ppc' = "idle"
  /\ processed_ids' = {}
  /\ presult' = "none"
  /\ wrote_eml' = FALSE
  /\ raisedAt' = "none"
  /\ UNCHANGED << persistFrame, failures, emlFile, eml_filename, partIx,
                  attachment_count, attDir, attLog, calls >>

NextPersist ==
  \/ ProcessEmail
  \/ WalkOther
  \/ SaveAttachment
  \/ ReturnTrue
  \/ RecordResult
  \/ LaterProcess

SpecPersist == InitPersist /\ [][NextPersist]_vars

\* ------------------------------------------------------- attachment names
\* The same calls for multipart messages whose headers decode and whose
\* parts are all attachments: what varies is the names the parts declare.
AttachmentKinds ==
  { Part(TRUE, PlainHeader(InvoicePdf), AppPdf),
    Part(TRUE, PlainHeader(Invoice1Pdf), AppPdf),
    Part(TRUE, Absent, ImagePng) }

InitAttach ==
  /\ MainIdle
  /\ filename = <<>>
  /\ sanitized = Pending
  /\ msg \in [subject : {PlainHeader(Re)}, sender : {PlainHeader(Re)},
               multipart : {TRUE},
               parts : UNION { [1..n -> AttachmentKinds] : n \in 0..MaxParts }]
  /\ PersistIdle

NextAttach ==
  \/ ProcessEmail
  \/ SaveAttachment
  \/ ReturnTrue
  \/ RecordResult
  \/ LaterProcess

SpecAttach == InitAttach /\ [][NextAttach]_vars

\* ------------------------------------------------------------------ claims
\* The fallback list as the claim words it: quoted, upper-case, lower-case,
\* INBOX.-prefixed unless the request is the root inbox, bracketed provider
\* form only when the server address contains the provider's name.
ClaimedFallbacks ==
  << Quoted(requested), StrUpper(requested), StrLower(requested) >>
  \o (IF requested # INBOX THEN << InboxDot \o requested >> ELSE << >>)
  \o (IF Contains(gmail, StrLower(server))
      THEN << GmailSlash \o requested >> ELSE << >>)

SelectingFallbacks ==
  {k \in 1..Len(ClaimedFallbacks) : Status(ClaimedFallbacks[k]) = "OK"}

FirstSelecting ==
  CHOOSE k \in SelectingFallbacks : \A j \in SelectingFallbacks : k <= j

EntryIds == IF resumeAccepted THEN ledgerAtEntry.processed_ids ELSE {}

LoopOver == pc \in {"cleanup", "done"} /\ total_emails > 0

\* C1: a per-message failure never makes download_all_emails return False;
\* a failing id is never in processed_ids and a succeeding one always is;
\* every position the loop has passed was fetched unless the id was already
\* completed, and when the loop is over that is every id of the work list,
\* processed_ids is the ids the run started with plus the ids that
\* succeeded, and the counters report exactly the successes.
C1_Isolation ==
  /\ pc = "failed" => (fetchLog = <<>> /\ failedIds = {})
  /\ failedIds \cap processed_ids = {}
  /\ okIds \subseteq processed_ids
  /\ pc \in {"loop", "cleanup", "done"} =>
       \A k \in 1..i : email_ids[k] \in EntryIds \cup Range(fetchLog)
  /\ LoopOver =>
       /\ i = Len(email_ids)
       /\ Range(fetchLog) = okIds \cup failedIds
       /\ processed_ids = EntryIds \cup okIds
       /\ successful_downloads = Cardinality(okIds)
       /\ processed_count =
            (IF resume_mode THEN Cardinality(EntryIds) ELSE 0) + Cardinality(okIds)

C1_Witness ==
  /\ pc = "done"
  /\ nmsgs = 5
  /\ failedIds = {3}
  /\ processed_ids = {1, 2, 4, 5}
  /\ processed_count = 4
  /\ total_emails = 5

\* C2: in a run whose resume offer was accepted, no id recorded in the
\* progress file the run started from is fetched, and no archive file of
\* such an id is opened for writing.
C2_NoRedo ==
  resumeAccepted =>
    \A id \in ledgerAtEntry.processed_ids :
      id \notin Range(fetchLog) /\ id \notin writtenIds

C2_Witness ==
  /\ pc = "done"
  /\ resumeAccepted
  /\ ledgerAtEntry.processed_ids # {}
  /\ fetchLog # <<>>

\* C3: no step opens for writing the archive file of an id whose archive
\* file already exists, whatever runs were interrupted before.
C3_ExactlyOnce ==
  [][\A id \in Ids :
       (id \in writtenIds' /\ id \notin writtenIds) => emlFile[id] = "none"]_vars

\* C4: in a job without per-message failures, whenever a run has gone
\* through its whole work list, processed_ids is exactly the enumerated ids,
\* however many earlier runs were interrupted and wherever.
C4_ResumeConverges ==
  (LoopOver /\ failures = 0) => processed_ids = 1..nmsgs

C4_Witness ==
  /\ pc = "done"
  /\ failures = 0
  /\ resumeAccepted
  /\ resume_mode
  /\ nmsgs > Cadence
  /\ ledgerAtEntry.processed_ids = 1..Cadence
  /\ processed_ids = 1..nmsgs

\* C5: an interrupt that arrives during the fetching loop arrives between two
\* iterations, and when the process has stopped the progress file holds a
\* checkpoint with all ids completed so far.
C5_InterruptCheckpoints ==
  interruptedAt \in {"loop", "write"} =>
    /\ interruptedAt = "loop"
    /\ ledger.kind = "progress"
    /\ ledger.processed_ids = processed_ids

\* C6: when the loop of an uninterrupted run is over, save_progress was
\* called after batch position p exactly for the positions that are a
\* multiple of 10 or the last one.
C6_Cadence ==
  LoopOver =>
    \A p \in 1..Len(email_ids) :
      (\E k \in 1..Len(ckptLog) : ckptLog[k].at = p)
        <=> (p % 10 = 0 \/ p = Len(email_ids))

C9_FatalBeforeWork ==
  pc = "failed" =>
    /\ failCause \in {"folder", "search", "exception"}
    /\ fetchLog = <<>>
    /\ writtenIds = {}
    /\ ckptLog = <<>>
    /\ ledger = ledgerAtEntry

C9_Witness ==
  /\ pc = "failed"
  /\ failCause = "folder"
  /\ ledger.kind = "progress"
  /\ ledger.processed_ids # {}

\* C10: while and after the loop runs, processed_count is the number of
\* elements of processed_ids, and the progress file stores a processed_count
\* equal to the size of its id set.
C10_CounterInvariant ==
  /\ pc \in {"loop", "cleanup"} \/ LoopOver =>
       processed_count = Cardinality(processed_ids)
  /\ ledger.kind = "progress" =>
       ledger.processed_count = Cardinality(ledger.processed_ids)

\* C14: whatever sanitize_filename returns holds none of the characters
\* < > : " / \ | ? *, is at most 200 characters long, and ends with the
\* extension of the name it cut, for every split into stem and extension.
C14_FilenameSafety ==
  sanitized # Pending =>
    /\ \A k \in 1..Len(sanitized) : sanitized[k] \notin ForbiddenChars
    /\ Len(sanitized) <= NameLimit
    /\ LET ext == SplitExt(Strip(ReplaceForbidden(filename), {".", " "})).ext
       IN  SubSeq(sanitized, Len(sanitized) - Len(ext) + 1, Len(sanitized))
             = ext

\* C11: once a call of process_email has written the archive file in full,
\* it returns True and the caller adds the id to processed_ids, whatever
\* happened in the walk over the parts and in save_attachment.
C11_AttachmentsNeverFail ==
  /\ (ppc \in {"returned", "recorded"} /\ wrote_eml) => presult = TRUE
  /\ (ppc = "recorded" /\ wrote_eml) => MsgId \in processed_ids

\* C12: when the Subject header does not decode (and no file operation
\* failed), the message is archived all the same and its id is added to
\* processed_ids.
C12_HeaderDegrades ==
  ( /\ ppc = "recorded"
    /\ ~DecodeMimeWords(GetHeader(msg.subject, NoSubject)).ok
    /\ failures = 0 )
  => ( /\ wrote_eml
       /\ emlFile[MsgId] = "full"
       /\ MsgId \in processed_ids )

\* the names save_attachment tries for a declared name: itself, _1, _2, ...
Earlier(j) ==
  {h \in 1..(j - 1) : attLog[h].declared = attLog[j].declared}

\* C15 as stated: no call of save_attachment wrote over a file that existed,
\* the calls that succeeded produced pairwise distinct names, and the k-th
\* save of a declared name has the suffix k-1 (none for the first).
C15_AsClaimed ==
  \A j \in 1..Len(attLog) :
    /\ attLog[j].filepath \notin attLog[j].before
    /\ \A h \in 1..(j - 1) :
         (attLog[h].saved /\ attLog[j].saved) =>
            attLog[h].filepath # attLog[j].filepath
    /\ attLog[j].filepath =
         Candidate(attLog[j].declared, Cardinality(Earlier(j)))

\* C15: no call of save_attachment wrote over a file that existed, the
\* calls that succeeded produced pairwise distinct names, and a save gets
\* the first of name, name_1, name_2, ... that is not in the directory; that
\* is suffix k-1 for the k-th save of a declared name when the only such
\* names in the directory are the files of its own earlier saves.
C15_CollisionResolution ==
  \A j \in 1..Len(attLog) :
    LET declared == attLog[j].declared
        before == attLog[j].before
        own == {attLog[h].filepath : h \in Earlier(j)} \cap before
    IN  /\ attLog[j].filepath \notin before
        /\ \A h \in 1..(j - 1) :
             (attLog[h].saved /\ attLog[j].saved) =>
                attLog[h].filepath # attLog[j].filepath
        /\ \E c \in 0..Cardinality(before) :
             /\ attLog[j].filepath = Candidate(declared, c)
             /\ \A b \in 0..(c - 1) : Candidate(declared, b) \in before
        /\ (\A c \in 0..Cardinality(before) :
              Candidate(declared, c) \in before =>
                Candidate(declared, c) \in own)
           => attLog[j].filepath = Candidate(declared, Cardinality(own))

C15_Witness ==
  /\ Len(attLog) = 2
  /\ attLog[1].declared = InvoicePdf
  /\ attLog[2].declared = InvoicePdf
  /\ attLog[1].saved
  /\ attLog[2].saved
  /\ attLog[1].filepath = InvoicePdf
  /\ attLog[2].filepath = Invoice1Pdf
  /\ attDir = {InvoicePdf, Invoice1Pdf}

\* the ids recorded in the progress file
PersistedIds == IF ledger.kind = "progress" THEN ledger.processed_ids ELSE {}

\* subjects as process_email hands them to the file name
SafeSubjects ==
  { SanitizeFilename(subject) :
      subject \in { <<>>, Re, NoSubject, <<"7", "_">>, <<"0", "0", "0", "0", "0", "7">>,
                    Rep("a", SubjectLimit + 1) } }

\* the archive file names an id can get
ArchiveNames ==
  [id \in Ids |-> {ArchiveName(id, subject) : subject \in SafeSubjects}]

\* for each id, whether no other id can get one of its archive file names
NameUnique ==
  [a \in Ids |->
     \A b \in Ids \ {a} : ArchiveNames[a] \cap ArchiveNames[b] = {}]

\* C13: every id in processed_ids or in the progress file has its archive
\* file written in full, an id whose archive file is missing or cut short
\* is in neither, and the archive file name of such an id cannot be the
\* name of another id's file, whatever the subjects.
C13_CompletedArchived ==
  /\ \A id \in processed_ids \cup PersistedIds : emlFile[id] = "full"
  /\ \A id \in failedIds : id \notin processed_ids
  /\ \A id \in processed_ids \cup PersistedIds : NameUnique[id]

C13_Witness ==
  /\ pc = "done"
  /\ processed_ids = {1, 2, 3}
  /\ PersistedIds = {1, 2, 3}
  /\ emlFile[4] = "partial"
  /\ failedIds = {4}

\* C16: in a run whose resume offer was accepted the work list is the
\* enumerated ids without the ids of the progress file, in order, and
\* processed_count started at their number; in a run whose offer was not
\* accepted the work list is the enumerated ids and processed_ids started
\* empty; a process that starts from a progress file without accepting it
\* starts with the file removed.
C16_StateAtLoop ==
  pc \in {"loop", "cleanup"} =>
    IF resumeAccepted
    THEN /\ email_ids =
              SelectSeq2(EnumeratedIds, ledgerAtEntry.processed_ids)
         /\ processed_count =
              Cardinality(ledgerAtEntry.processed_ids) + Cardinality(okIds)
    ELSE /\ email_ids = EnumeratedIds
         /\ processed_ids = okIds

C16_DeclineStep ==
  (pc' = "select" /\ pc # "select" /\ LoadProgress # NoLedger
     /\ ~resumeAccepted')
  => (ledger' = NoLedger /\ processed_ids' = {})

C16_ResumeReconciliation == [](C16_StateAtLoop) /\ [][C16_DeclineStep]_vars

\* C17: while the loop runs, fewer than 10 ids of processed_ids are missing
\* from the progress file.
C17_BoundedRework ==
  pc = "loop" => Cardinality(processed_ids \ PersistedIds) < Cadence

\* C18: a run that skips ids because of a progress file runs against the
\* server and the folder that file was written for.
C18_SameJob ==
  ( /\ pc \in {"loop", "cleanup"}
    /\ resumeAccepted
    /\ ledgerAtEntry.processed_ids \cap Range(EnumeratedIds) # {} )
  => ( /\ ledgerAtEntry.server = server
       /\ ledgerAtEntry.folder = folder )

\* C19: a process that starts from an absent or unparseable progress file
\* is not a resumed one, starts with no completed ids and works on the full
\* enumerated list; however the writes of the progress file end,
\* download_all_emails does not return False after the first of them,
\* processed_ids and processed_count are exactly what the successes make
\* them, and the loop ends only when it has been through the whole work
\* list.
C19_LedgerFaultsNonFatal ==
  /\ (pc # "idle" /\ ledgerAtEntry.kind # "progress") =>
       /\ ~resumeAccepted
       /\ ~resume_mode
       /\ processed_ids = okIds
       /\ pc \in {"loop", "cleanup"} => email_ids = EnumeratedIds
  /\ pc = "failed" => ckptLog = <<>>
  /\ pc \in {"loop", "cleanup"} =>
       /\ processed_ids = EntryIds \cup okIds
       /\ processed_count =
            (IF resume_mode THEN Cardinality(EntryIds) ELSE 0)
              + Cardinality(okIds)
  /\ pc = "cleanup" => i = Len(email_ids)
  /\ \A k \in 1..Len(ckptLog) :
       (ckptLog[k].outcome \in {"refused", "truncated"} /\ pc = "loop") =>
          i >= ckptLog[k].at

C19_Witness ==
  /\ pc = "cleanup"
  /\ ledgerAtEntry = CorruptLedger
  /\ nmsgs > Cadence
  /\ \E k \in 1..Len(ckptLog) :
       ckptLog[k].at = Cadence /\ ckptLog[k].outcome = "truncated"
  /\ processed_ids = 1..nmsgs
  /\ processed_count = nmsgs

\* C20: a write of the progress file that does not complete leaves what
\* load_progress returns as it was before the write.
C20_WritesKeepProgress ==
  [][(Len(ckptLog') = Len(ckptLog) + 1 /\ Last(ckptLog').outcome # "ok")
       => LoadProgress' = LoadProgress]_vars

\* C21: the ids a run has fetched are ids of its work list, in the order of
\* the enumeration, none of them twice; all but the one in hand are settled
\* (archived or failed) and every position before a fetched one was fetched
\* or skipped as already completed; nothing is fetched before the folder was
\* selected and the ids were enumerated, nor in a call that returns False.
C21_SequentialFetch ==
  LET fetched == Range(fetchLog)
      settled == okIds \cup failedIds
  IN  /\ fetched \subseteq Range(email_ids)
      /\ fetched \subseteq 1..nmsgs
      /\ \A k \in 2..Len(fetchLog) : fetchLog[k - 1] < fetchLog[k]
      /\ \A k \in 1..(Len(fetchLog) - 1) : fetchLog[k] \in settled
      /\ \A k \in 1..Len(email_ids) :
           /\ email_ids[k] \in fetched => k <= i + 1
           /\ (k <= i /\ pc \in {"loop", "cleanup", "done"}) =>
                email_ids[k] \in fetched \cup EntryIds
      /\ (pc = "loop" /\ fetchLog # <<>>) => Last(fetchLog) \in settled
      /\ pc \in {"idle", "select", "search", "failed"} => fetchLog = <<>>
      /\ interruptedAt \in {"select", "search"} => fetchLog = <<>>

C21_Witness ==
  /\ pc = "loop"
  /\ email_ids = <<1, 2, 3>>
  /\ fetchLog = <<1, 2>>
  /\ failedIds = {1}
  /\ okIds = {2}
  /\ i = 2

Running == pc \in {"select", "search", "loop", "cleanup"}

Terminal == pc \in {"done", "failed"}

\* what holds in every state of a call of download_all_emails
C22_Bounded ==
  /\ i <= Len(email_ids)
  /\ Len(fetchLog) <= i
  /\ Len(email_ids) <= nmsgs
  /\ pc = "failed" => failCause \in {"folder", "search", "exception"}
  /\ (pc \in {"loop", "cleanup", "done"} /\ nmsgs = 0) =>
       /\ pc = "done"
       /\ fetchLog = <<>>
       /\ writtenIds = {}
       /\ ckptLog = <<>>
       /\ ledger = ledgerAtEntry

\* C22: without Ctrl-C, a call of download_all_emails that has started
\* reaches the state done or the state failed, the loop taking at most one
\* turn and at most one fetch for each id of the work list; on an empty
\* enumeration the call ends as done without a fetch, an archive file
\* opened or a write of the progress file, the progress file as it was.
C22_Termination == (Running ~> Terminal) /\ []C22_Bounded

C22_Witness ==
  /\ pc = "done"
  /\ nmsgs = 3
  /\ i = 3
  /\ failedIds = {2}
  /\ okIds = {1, 3}
  /\ runs = 1

====
